---- MODULE Spec2Model ----
(***************************************************************************)
(* Model of the MCP Crontab Explorer server (src/mcp_crontab_server.py):   *)
(* the tool discovery scan over the module globals, the four tool          *)
(* handlers, the HTTP request handler (do_GET / do_POST) and the single    *)
(* serve_forever loop that main() starts; and of the HTTP client           *)
(* (src/mcp_crontab_client_http.py): the probe, the startup wait, the      *)
(* discovery and the command loop of its main().                           *)
(*                                                                         *)
(* A path is kept as the list python's path.split("/") returns, without    *)
(* the leading empty string: "/" is <<"">>, "/tools" is <<"tools">>,       *)
(* "/tools/x" is <<"tools", "x">>, "/tools/" is <<"tools", "">>.           *)
(***************************************************************************)
EXTENDS Integers, Sequences, FiniteSets, TLC

\* Bounds of the model.
MaxPending == 1     \* connections waiting in the listen backlog
MaxLines == 2       \* lines of output a host command produces

VARIABLES
    globalsTab,     \* the module's globals(), in insertion order
    serverUp,       \* serve_forever is running (no shutdown requested)
    pending,        \* connections established by clients, not yet accepted
    pc,             \* position of the serving thread
    req,            \* the request of the connection being served
    resp,           \* the response written on that connection
    invoked,        \* the tool callable was called for this connection
    hostOutcome,    \* what the handler's host operation did
    clientOpen,     \* the peer of the connection being served is still open
    discovered,     \* the catalogs GET /tools answered: the first, the latest
    lastOutcome,    \* how the previous connection ended
    cpc,            \* position of the client's main()
    waitProbes,     \* iterations of the startup wait loop done
    slept,          \* seconds the client has slept in the wait loop
    probe,          \* the last check_server_running() of the startup
    disc,           \* what list_tools() met
    printed,        \* the last error the client printed
    exitStatus,     \* the value main() returned (-1 while it runs)
    debug_mode,     \* --debug was given (choice 5 toggles it)
    lastCall        \* the last call_tool() of the command loop

serverVars == <<globalsTab, serverUp, pending, pc, req, resp, invoked,
                hostOutcome, clientOpen, discovered, lastOutcome>>

clientVars == <<cpc, waitProbes, slept, probe, disc, printed, exitStatus,
                debug_mode, lastCall>>

vars == <<globalsTab, serverUp, pending, pc, req, resp, invoked, hostOutcome,
          clientOpen, discovered, lastOutcome, cpc, waitProbes, slept, probe,
          disc, printed, exitStatus, debug_mode, lastCall>>

(***************************************************************************)
(* The module globals and the discovery scan.                              *)
(***************************************************************************)

\* The names given to @mcp.tool() in the module.
DecoratedTools ==
    {"fetch__crontab_contents", "show_scheduled_task_summary",
     "search_crontab_entries", "check_server_status"}

G(name, isCallable, mcpAttr, doc) ==
    [name |-> name, callable |-> isCallable, mcpAttr |-> mcpAttr, doc |-> doc]

\* globals() of the module once it is imported, in definition order.
\* toolAttr: the decorator leaves an attribute whose name contains "mcp" on
\* the functions it decorates; classAttr: the imported FastMCP class has such
\* an attribute.  Both depend on the installed library, so both are open.
\* The decorated names stay bound to the functions (do_POST calls them, and
\* check_server_status is called as a function by its own module).
ModuleGlobals(toolAttr, classAttr) ==
    << G("json", FALSE, FALSE, ""),
       G("HTTPServer", TRUE, FALSE, ""),
       G("BaseHTTPRequestHandler", TRUE, FALSE, "HTTP request handler base class."),
       G("FastMCP", TRUE, classAttr, "FastMCP server class."),
       G("mcp", FALSE, TRUE, ""),
       G("HOST", FALSE, FALSE, ""),
       G("PORT", FALSE, FALSE, ""),
       G("get_registered_tools", TRUE, FALSE, "Get a list of registered tool names"),
       G("fetch__crontab_contents", TRUE, toolAttr, "Fetch cron jobs for the app"),
       G("show_scheduled_task_summary", TRUE, toolAttr,
         "Show most recent related cron log output"),
       G("search_crontab_entries", TRUE, toolAttr,
         "Search for crontab entries containing a specific term"),
       G("check_server_status", TRUE, toolAttr, "Check the status of the MCP server"),
       G("MCPHTTPHandler", TRUE, FALSE, ""),
       G("check_port_in_use", TRUE, FALSE, "Check if a port is already in use"),
       G("main", TRUE, FALSE, "Main function to start the MCP server") >>

\* The names recognised as tools whatever their attributes are.
KnownToolNames ==
    {"fetch__crontab_entries", "fetch__crontab_entries_count",
     "show_scheduled_task_summary", "check_server_status",
     "search_crontab_entries"}

\* The list used when the scan finds nothing.
HardcodedTools ==
    << "fetch__crontab_entries", "fetch__crontab_entries_count",
       "show_scheduled_task_summary", "check_server_status",
       "search_crontab_entries" >>

RECURSIVE NamesOf(_)
NamesOf(s) == IF s = <<>> THEN <<>> ELSE <<Head(s).name>> \o NamesOf(Tail(s))

IsTool(e) == e.callable /\ (e.mcpAttr \/ e.name \in KnownToolNames)

ScanGlobals(g) == NamesOf(SelectSeq(g, IsTool))

\* A scan that always returns the hard-coded list.
get_registered_tools_hardcoded == HardcodedTools

\* A scan that keeps its result list between calls: after a connection has
\* been served the names of the earlier call are still in it.
get_registered_tools_accumulating ==
    IF lastOutcome = "none" THEN ScanGlobals(globalsTab)
    ELSE ScanGlobals(globalsTab) \o ScanGlobals(globalsTab)

get_registered_tools ==
    IF ScanGlobals(globalsTab) = <<>> THEN HardcodedTools
    ELSE ScanGlobals(globalsTab)

SeqToSet(s) == {s[i] : i \in 1..Len(s)}

\* globals().get(name): the entry bound to name, or <<>> for None.
GlobalsGet(name) ==
    LET hits == SelectSeq(globalsTab, LAMBDA e: e.name = name)
    IN IF hits = <<>> THEN <<>> ELSE <<hits[1]>>

\* The description GET /tools gives for a tool name.
Description(tool_name) ==
    LET f == GlobalsGet(tool_name) IN
    IF f # <<>> /\ f[1].doc # "" THEN f[1].doc
    ELSE IF tool_name = "fetch_crontab_entries" THEN "Fetch cron jobs for the  app"
    ELSE IF tool_name = "fetch_crontab_entries_count"
         THEN "Fetch the count of cron jobs for the  app"
    ELSE IF tool_name = "show_scheduled_task_summary"
         THEN "Show most recent  related cron log output"
    ELSE IF tool_name = "check_server_status" THEN "Check the status of the MCP server"
    ELSE "No description available"

RECURSIVE ToolsList(_)
ToolsList(names) ==
    IF names = <<>> THEN <<>>
    ELSE <<[name |-> Head(names), description |-> Description(Head(names))]>>
         \o ToolsList(Tail(names))

(***************************************************************************)
(* JSON values the server produces, and their encoding.                    *)
(***************************************************************************)

\* A JSON value: kind is "none", "tools" (the catalog array), "info" (the
\* liveness object), "envelope" (a tool result), "error" (an {"error": ...}
\* object), "object" (a python object json cannot encode) or "raised" (the
\* call raised instead of returning).
Value(kind, status, fields, count, tools, error) ==
    [kind |-> kind, status |-> status, fields |-> fields, count |-> count,
     tools |-> tools, error |-> error]

NoValue == Value("none", "", {}, -1, <<>>, <<>>)
Raised(cause) == Value("raised", "", {}, -1, <<>>, <<cause>>)
PyObject == Value("object", "", {}, -1, <<>>, <<>>)
Envelope(status, fields, count) == Value("envelope", status, fields, count, <<>>, <<>>)

\* The order in which the keys of the objects are written.
FieldOrder ==
    << "status", "server_name", "name", "version", "type", "query", "count",
       "tools_available", "pid", "entries", "raw_data", "data", "message",
       "timestamp", "error" >>

RECURSIVE EncodeTools(_)
EncodeTools(ts) ==
    IF ts = <<>> THEN <<>>
    ELSE <<"name", Head(ts).name, "description", Head(ts).description>>
         \o EncodeTools(Tail(ts))

\* json.dumps(...).encode("utf-8"), as the list of tokens written.
JsonDumps(v) ==
    IF v.kind = "tools" THEN <<"[">> \o EncodeTools(v.tools) \o <<"]">>
    ELSE <<"{">> \o SelectSeq(FieldOrder, LAMBDA f: f \in v.fields) \o v.error
         \o <<"}">>

Serializable(v) == v.kind \in {"tools", "info", "envelope", "error"}

(***************************************************************************)
(* The tool handlers.  outcome is what the host operation did: "output"    *)
(* (exit code 0 and n lines of output), "empty" (a non-zero exit code or   *)
(* no output) or "raises".                                                 *)
(***************************************************************************)

HostOutcomes == {"output", "empty", "raises"}

ErrorEnvelope == Envelope("error", {"status", "message", "timestamp"}, -1)

fetch__crontab_contents(outcome, n) ==
    IF outcome = "output"
    THEN Envelope("success",
                  {"status", "type", "count", "entries", "raw_data", "timestamp"}, n)
    ELSE IF outcome = "empty"
    THEN Envelope("warning", {"status", "type", "count", "message", "timestamp"}, 0)
    ELSE ErrorEnvelope

\* The warning branch built without its timestamp.
show_scheduled_task_summary_no_timestamp(outcome, n) ==
    IF outcome = "output"
    THEN Envelope("success", {"status", "type", "count", "data", "timestamp"}, n)
    ELSE IF outcome = "empty"
    THEN Envelope("warning", {"status", "message"}, -1)
    ELSE ErrorEnvelope

show_scheduled_task_summary(outcome, n) ==
    IF outcome = "output"
    THEN Envelope("success", {"status", "type", "count", "data", "timestamp"}, n)
    ELSE IF outcome = "empty"
    THEN Envelope("warning", {"status", "message", "timestamp"}, -1)
    ELSE ErrorEnvelope

\* A search that reports "nothing found" as an error.
search_crontab_entries_empty_is_error(outcome, n) ==
    IF outcome = "output"
    THEN Envelope("success",
                  {"status", "type", "query", "count", "entries", "raw_data",
                   "timestamp"}, n)
    ELSE ErrorEnvelope

search_crontab_entries(outcome, n) ==
    IF outcome = "output"
    THEN Envelope("success",
                  {"status", "type", "query", "count", "entries", "raw_data",
                   "timestamp"}, n)
    ELSE IF outcome = "empty"
    THEN Envelope("warning",
                  {"status", "type", "query", "count", "message", "timestamp"}, 0)
    ELSE ErrorEnvelope

check_server_status(outcome, n) ==
    IF outcome # "raises"
    THEN Envelope("online",
                  {"status", "server_name", "version", "tools_available", "pid",
                   "timestamp"}, Len(get_registered_tools))
    ELSE ErrorEnvelope

\* The parameters each callable declares.
DeclaredParams(name) ==
    IF name = "search_crontab_entries" THEN {"search_term"} ELSE {}

\* A call with no try/except around the host operation.
CallTool_uncaught(name, outcome, n) ==
    IF outcome = "raises" THEN Raised("host operation failed")
    ELSE IF name = "fetch__crontab_contents" THEN fetch__crontab_contents(outcome, n)
    ELSE IF name = "show_scheduled_task_summary"
         THEN show_scheduled_task_summary(outcome, n)
    ELSE IF name = "search_crontab_entries" THEN search_crontab_entries(outcome, n)
    ELSE IF name = "check_server_status" THEN check_server_status(outcome, n)
    ELSE PyObject

\* tool_func(**params), once the parameters are bound: the value the callable
\* bound to name returns.  A callable that is not one of the handlers (a
\* class the scan took for a tool) returns an object of its own.
CallTool(name, outcome, n) ==
    IF name = "fetch__crontab_contents" THEN fetch__crontab_contents(outcome, n)
    ELSE IF name = "show_scheduled_task_summary"
         THEN show_scheduled_task_summary(outcome, n)
    ELSE IF name = "search_crontab_entries" THEN search_crontab_entries(outcome, n)
    ELSE IF name = "check_server_status" THEN check_server_status(outcome, n)
    ELSE PyObject

(***************************************************************************)
(* Requests and responses.                                                 *)
(***************************************************************************)

Response(code, acao, data) ==
    [code |-> code, acao |-> acao, connClose |-> TRUE,
     contentLength |-> Len(JsonDumps(data)), written |-> JsonDumps(data),
     body |-> data]

\* Nothing was written on the connection.
NoResponse ==
    [code |-> 0, acao |-> FALSE, connClose |-> FALSE, contentLength |-> 0,
     written |-> <<>>, body |-> NoValue]

_send_json_response(data) == Response(200, TRUE, data)

_handle_error(status_code, message) ==
    Response(status_code, FALSE, Value("error", "", {"error"}, -1, <<>>, message))

ToolNotFound(tool_name) == <<"Tool '", tool_name, "' not found">>
InvalidEndpoint == <<"Invalid endpoint">>
NotInGlobals(tool_name) == <<"Tool function '", tool_name, "' not found in globals">>
ErrorCallingTool(cause) == <<"Error calling tool: ", cause>>

InfoObject == Value("info", "online", {"name", "version", "status"}, -1, <<>>, <<>>)

\* Request bodies: nothing, a JSON object with the given keys, a JSON value
\* that is not an object (a list, null, a number), or bytes that are not JSON.
Body(kind, keys) == [kind |-> kind, keys |-> keys]
EmptyBody == Body("empty", {})
Bodies ==
    {EmptyBody, Body("nonobject", {}), Body("invalid", {})}
    \cup {Body("object", k) : k \in {{}, {"search_term"}, {"bogus"}}}

\* The Content-Length header: absent, the length of the body sent, a larger
\* number than the bytes sent, or not a number.
ContentLengths == {"absent", "exact", "larger", "bad"}

PathNames ==
    DecoratedTools \cup {"fetch__crontab_entries", "frobnicate", "FastMCP", ""}

Paths ==
    {<<"">>, <<"tools">>, <<"other">>, <<"other", "check_server_status">>}
    \cup {<<"tools", n>> : n \in PathNames}
    \cup {<<"tools", "x", n>> : n \in {"check_server_status", "frobnicate"}}

\* GET requests carry no body (do_GET never reads one); POST requests carry
\* every combination of header and body.
Requests ==
    [method : {"GET"}, path : Paths, cl : {"absent"}, body : {EmptyBody}]
    \cup [method : {"POST"}, path : Paths, cl : ContentLengths, body : Bodies]

NoRequest == [method |-> "", path |-> <<>>, cl |-> "absent", body |-> EmptyBody]

\* self.path.startswith("/tools/")
StartsWithTools(path) == Len(path) >= 2 /\ path[1] = "tools"

\* self.path.split("/")[-1]
LastSegment(path) == path[Len(path)]

\* A read that takes whatever bytes the peer sent, announced or not.
PostData_reads_unannounced(r) == r.body

\* self.rfile.read(content_length).decode(): the bytes do_POST gets to parse.
PostData(r) == IF r.cl = "absent" THEN EmptyBody ELSE r.body

(***************************************************************************)
(* The client: check_server_running, list_tools, call_tool and main.       *)
(* What the network does is an input of each call: the socket connect      *)
(* ("ok", "refused" for a non-zero connect_ex, "error" for an exception),  *)
(* the HTTP request ("response", "timeout", "connerror", "error" for any   *)
(* other RequestException, "unexpected" for any other exception), the      *)
(* status and the body of the response.                                    *)
(***************************************************************************)

RetryBudget == 15       \* range(15)
SleepSeconds == 2       \* time.sleep(2)

SockOutcomes == {"ok", "refused", "error"}
ProbeHttpOutcomes == {"response", "timeout", "connerror", "unexpected"}

\* A probe that trusts the open port and ignores the HTTP request.
check_server_running_socket_only(sock, http) ==
    IF sock = "ok" THEN "True" ELSE "False"

\* check_server_running(): "True", "False", or "raise" if an exception left it.
check_server_running(sock, http) ==
    IF sock # "ok" THEN "False"
    ELSE IF http = "response" THEN "True"
    ELSE "False"

Probe(sock, http) ==
    [sock |-> sock, http |-> http, result |-> check_server_running(sock, http)]

NoProbe == [sock |-> "none", http |-> "none", result |-> "none"]

\* The HTTP request is only made once the socket has connected.
ProbeInputs ==
    {<<"ok", h>> : h \in ProbeHttpOutcomes}
    \cup {<<k, "none">> : k \in SockOutcomes \ {"ok"}}

\* Bodies of a response: no bytes, bytes that are not JSON, bytes that are not
\* JSON and hold a closing tag of the console's markup (as in "[/etc]"), and
\* the JSON values: null, a number, an object, an empty array, an array of
\* tool descriptors.
ResponseBodies ==
    {"empty", "malformed", "markup", "null", "number", "object", "array0", "tools"}

\* What the user types at "Enter search term": text without or with a
\* closing tag of the console's markup.
SearchTerms == {"plain", "markup"}

\* console.print() of a string built from text: rich raises MarkupError on a
\* closing tag that closes nothing, and the text of that error quotes the
\* tag, so the print of the except clause raises as well.
PrintRaises(text) == text = "markup"

Statuses == {200, 404, 500}

Exchange(http, status, body) == [http |-> http, status |-> status, body |-> body]

RequestOutcomes ==
    {Exchange(h, 0, "none") : h \in {"timeout", "connerror", "error", "unexpected"}}
    \cup {Exchange("response", st, b) : st \in Statuses, b \in ResponseBodies}

Returned(value, msg) == [value |-> value, message |-> msg]

\* list_tools() that takes an empty body for an empty catalog.
list_tools_empty_is_no_tools(p, x) ==
    IF p.result # "True"
    THEN Returned("None", "Server is not responding to basic requests")
    ELSE IF x.http = "timeout"
    THEN Returned("None", "Request timed out - server might be busy")
    ELSE IF x.http = "connerror"
    THEN Returned("None", "Connection error - server not running")
    ELSE IF x.http = "error" THEN Returned("None", "Request error")
    ELSE IF x.http = "unexpected" THEN Returned("None", "An unexpected error occurred")
    ELSE IF x.status # 200
    THEN Returned("None", "Error: Server returned status code")
    ELSE IF x.body = "empty" THEN Returned("array0", "")
    ELSE IF PrintRaises(x.body) THEN Returned("raise", "Traceback")
    ELSE IF x.body = "malformed" THEN Returned("None", "Error: Invalid JSON response")
    ELSE IF x.body \in {"null", "number"}
    THEN Returned("None", "An unexpected error occurred")
    ELSE Returned(x.body, "")

\* list_tools(): p is its own probe, x the GET /tools exchange.  The value
\* is "None" or the parsed body; len(tools) raises on null and on a number.
list_tools(p, x) ==
    IF p.result # "True"
    THEN Returned("None", "Server is not responding to basic requests")
    ELSE IF x.http = "timeout"
    THEN Returned("None", "Request timed out - server might be busy")
    ELSE IF x.http = "connerror"
    THEN Returned("None", "Connection error - server not running")
    ELSE IF x.http = "error" THEN Returned("None", "Request error")
    ELSE IF x.http = "unexpected" THEN Returned("None", "An unexpected error occurred")
    ELSE IF x.status # 200
    THEN Returned("None", "Error: Server returned status code")
    ELSE IF x.body = "empty"
    THEN Returned("None", "Error: Server returned empty response")
    ELSE IF PrintRaises(x.body) THEN Returned("raise", "Traceback")
    ELSE IF x.body = "malformed" THEN Returned("None", "Error: Invalid JSON response")
    ELSE IF x.body \in {"null", "number"}
    THEN Returned("None", "An unexpected error occurred")
    ELSE Returned(x.body, "")

\* call_tool(): the parsed body, "None" after printing an error, or "raise"
\* when an exception leaves it.  The text of the response is printed for a
\* status other than 200 and for a body that is not JSON.
call_tool(x) ==
    IF x.http \in {"timeout", "connerror", "error"} THEN Returned("None", "Request error")
    ELSE IF x.http = "unexpected" THEN Returned("None", "An unexpected error occurred")
    ELSE IF x.status # 200
    THEN IF PrintRaises(x.body) THEN Returned("raise", "Traceback")
         ELSE Returned("None", "Error: Server returned status code")
    ELSE IF x.body = "empty"
    THEN Returned("None", "Error: Server returned empty response")
    ELSE IF PrintRaises(x.body) THEN Returned("raise", "Traceback")
    ELSE IF x.body = "malformed" THEN Returned("None", "Error: Invalid JSON response")
    ELSE Returned(x.body, "")

NoDisc == [probe |-> "none", http |-> "none", status |-> 0, body |-> "none",
           value |-> "none"]

NoCall == [tool |-> "", params |-> {}, value |-> "none"]

\* A menu whose first choice calls a tool by a name of the stale list.
MenuTool_stale(choice) ==
    IF choice = "1" THEN "fetch__crontab_entries"
    ELSE IF choice = "2" THEN "search_crontab_entries"
    ELSE "check_server_status"

\* The tool and the parameters behind each choice of the menu.
MenuTool(choice) ==
    IF choice = "1" THEN "show_scheduled_task_summary"
    ELSE IF choice = "2" THEN "search_crontab_entries"
    ELSE "check_server_status"

MenuParams(choice) == IF choice = "2" THEN {"search_term"} ELSE {}

(***************************************************************************)
(* The state machine: clients connect, the serving thread takes one        *)
(* connection at a time through the handler.                               *)
(* pc: "idle" (in serve_forever, waiting for a connection), "accepted"     *)
(* (request line and headers read), "body" (do_POST at rfile.read),        *)
(* "tool" (do_POST inside tool_func), "sent" (response written),           *)
(* "crashed" (the handler raised and wrote nothing).                       *)
(***************************************************************************)

\* The client process at the start of main(); debug is "--debug" in argv.
ClientStart(debug) ==
    /\ cpc = "start"
    /\ waitProbes = 0
    /\ slept = 0
    /\ probe = NoProbe
    /\ disc = NoDisc
    /\ printed = ""
    /\ exitStatus = -1
    /\ debug_mode = debug
    /\ lastCall = NoCall

\* The server is up and no client has been started.
Init ==
    /\ \E toolAttr \in BOOLEAN, classAttr \in BOOLEAN :
           globalsTab = ModuleGlobals(toolAttr, classAttr)
    /\ serverUp = TRUE
    /\ pending = 0
    /\ pc = "idle"
    /\ req = NoRequest
    /\ resp = NoResponse
    /\ invoked = FALSE
    /\ hostOutcome = "none"
    /\ clientOpen = FALSE
    /\ discovered = <<>>
    /\ lastOutcome = "none"
    /\ ClientStart(FALSE)

\* A client connects; the connection waits in the listen backlog.
Connect ==
    /\ serverUp
    /\ pending < MaxPending
    /\ pending' = pending + 1
    /\ UNCHANGED <<globalsTab, serverUp, pc, req, resp, invoked, hostOutcome,
                   clientOpen, discovered, lastOutcome>>
    /\ UNCHANGED clientVars

\* serve_forever takes connections only between two requests.
CanAccept == serverUp /\ pc = "idle" /\ pending > 0

\* serve_forever accepts the next connection and reads its request.
Accept ==
    /\ CanAccept
    /\ pending' = pending - 1
    /\ \E r \in Requests : req' = r
    /\ pc' = "accepted"
    /\ resp' = NoResponse
    /\ invoked' = FALSE
    /\ hostOutcome' = "none"
    /\ clientOpen' = TRUE
    /\ UNCHANGED <<globalsTab, serverUp, discovered, lastOutcome>>
    /\ UNCHANGED clientVars

\* do_GET that takes every path under /tools for the discovery path.
do_GET_prefix ==
    /\ pc = "accepted"
    /\ req.method = "GET"
    /\ IF req.path[1] = "tools"
       THEN LET tools_list == ToolsList(get_registered_tools) IN
            /\ resp' = _send_json_response(
                           Value("tools", "", {}, -1, tools_list, <<>>))
            /\ discovered' = IF discovered = <<>> THEN <<tools_list>>
                              ELSE <<discovered[1], tools_list>>
       ELSE /\ resp' = _send_json_response(InfoObject)
            /\ UNCHANGED discovered
    /\ pc' = "sent"
    /\ UNCHANGED <<globalsTab, serverUp, pending, req, invoked, hostOutcome,
                   clientOpen, lastOutcome>>
    /\ UNCHANGED clientVars

do_GET ==
    /\ pc = "accepted"
    /\ req.method = "GET"
    /\ IF req.path = <<"tools">>
       THEN LET tools_list == ToolsList(get_registered_tools) IN
            /\ resp' = _send_json_response(
                           Value("tools", "", {}, -1, tools_list, <<>>))
            /\ discovered' = IF discovered = <<>> THEN <<tools_list>>
                              ELSE <<discovered[1], tools_list>>
       ELSE /\ resp' = _send_json_response(InfoObject)
            /\ UNCHANGED discovered
    /\ pc' = "sent"
    /\ UNCHANGED <<globalsTab, serverUp, pending, req, invoked, hostOutcome,
                   clientOpen, lastOutcome>>
    /\ UNCHANGED clientVars

\* do_POST that reads the body before it looks the tool up.
do_POST_read_first ==
    /\ pc = "accepted"
    /\ req.method = "POST"
    /\ IF StartsWithTools(req.path)
       THEN pc' = "body" /\ UNCHANGED resp
       ELSE pc' = "sent" /\ resp' = _handle_error(404, InvalidEndpoint)
    /\ UNCHANGED <<globalsTab, serverUp, pending, req, invoked, hostOutcome,
                   clientOpen, discovered, lastOutcome>>
    /\ UNCHANGED clientVars

\* do_POST up to the read of the body: the path and the tool name are checked.
do_POST ==
    /\ pc = "accepted"
    /\ req.method = "POST"
    /\ IF StartsWithTools(req.path)
       THEN LET tool_name == LastSegment(req.path) IN
            IF tool_name \notin SeqToSet(get_registered_tools)
            THEN pc' = "sent" /\ resp' = _handle_error(404, ToolNotFound(tool_name))
            ELSE pc' = "body" /\ UNCHANGED resp
       ELSE pc' = "sent" /\ resp' = _handle_error(404, InvalidEndpoint)
    /\ UNCHANGED <<globalsTab, serverUp, pending, req, invoked, hostOutcome,
                   clientOpen, discovered, lastOutcome>>
    /\ UNCHANGED clientVars

\* An exception that leaves the handler ends the serving thread.
Uncaught_fatal == [pc |-> "crashed", up |-> FALSE]

\* What happens to an exception that leaves the handler: serve_forever logs
\* it, closes the connection and goes on.
Uncaught == [pc |-> "crashed", up |-> TRUE]

\* tool_func(**params) cannot bind the parameters.
BindError(tool_name, post_data) ==
    \/ post_data.kind = "nonobject"
    \/ post_data.keys # DeclaredParams(tool_name)

\* A parse that takes bytes that are not JSON for no parameters.
ParseFails_lenient(post_data) == FALSE

\* json.loads(post_data) raises.
ParseFails(post_data) == post_data.kind = "invalid"

\* do_POST from the read of the body to the call of the tool.  The read
\* returns when the announced bytes have arrived or the peer has closed.
do_POST_body ==
    /\ pc = "body"
    /\ req.cl = "larger" => ~clientOpen
    /\ LET tool_name == LastSegment(req.path)
           post_data == PostData(req)
           tool_func == GlobalsGet(tool_name)
       IN
       IF req.cl = "bad" \/ ParseFails(post_data)
       THEN /\ pc' = Uncaught.pc
            /\ serverUp' = (serverUp /\ Uncaught.up)
            /\ UNCHANGED <<resp, invoked>>
       ELSE IF tool_func = <<>>
       THEN /\ pc' = "sent"
            /\ resp' = _handle_error(500, NotInGlobals(tool_name))
            /\ UNCHANGED <<serverUp, invoked>>
       ELSE IF ~tool_func[1].callable \/ BindError(tool_name, post_data)
       THEN /\ pc' = "sent"
            /\ resp' = _handle_error(500, ErrorCallingTool("TypeError"))
            /\ UNCHANGED <<serverUp, invoked>>
       ELSE /\ pc' = "tool"
            /\ invoked' = TRUE
            /\ UNCHANGED <<serverUp, resp>>
    /\ UNCHANGED <<globalsTab, pending, req, hostOutcome, clientOpen, discovered,
                   lastOutcome>>
    /\ UNCHANGED clientVars

\* The call returns (or raises) and do_POST writes the response.
do_POST_result ==
    /\ pc = "tool"
    /\ \E outcome \in HostOutcomes, n \in 1..MaxLines :
         LET result == CallTool(LastSegment(req.path), outcome, n) IN
         /\ hostOutcome' = IF LastSegment(req.path) \in DecoratedTools
                           THEN outcome ELSE "none"
         /\ resp' = IF result.kind = "raised"
                    THEN _handle_error(500, ErrorCallingTool(result.error[1]))
                    ELSE IF ~Serializable(result)
                    THEN _handle_error(500, ErrorCallingTool("TypeError"))
                    ELSE _send_json_response(result)
    /\ pc' = "sent"
    /\ UNCHANGED <<globalsTab, serverUp, pending, req, invoked, clientOpen,
                   discovered, lastOutcome>>
    /\ UNCHANGED clientVars

\* The connection is closed, its request context is dropped and the thread is
\* back in serve_forever.
Finish ==
    /\ pc \in {"sent", "crashed"}
    /\ lastOutcome' = IF pc = "sent" THEN "answered" ELSE "crashed"
    /\ pc' = "idle"
    /\ req' = NoRequest
    /\ resp' = NoResponse
    /\ invoked' = FALSE
    /\ hostOutcome' = "none"
    /\ clientOpen' = FALSE
    /\ UNCHANGED <<globalsTab, serverUp, pending, discovered>>
    /\ UNCHANGED clientVars

\* The peer gives up on a connection whose body the server still waits for.
ClientClose ==
    /\ pc = "body"
    /\ req.cl = "larger"
    /\ clientOpen
    /\ clientOpen' = FALSE
    /\ UNCHANGED <<globalsTab, serverUp, pending, pc, req, resp, invoked,
                   hostOutcome, discovered, lastOutcome>>
    /\ UNCHANGED clientVars

\* Ctrl+C in main: server.shutdown() stops serve_forever from accepting.
KeyboardInterrupt ==
    /\ serverUp
    /\ serverUp' = FALSE
    /\ UNCHANGED <<globalsTab, pending, pc, req, resp, invoked, hostOutcome,
                   clientOpen, discovered, lastOutcome>>
    /\ UNCHANGED clientVars

Next ==
    \/ Connect
    \/ Accept
    \/ do_GET
    \/ do_POST
    \/ do_POST_body
    \/ do_POST_result
    \/ Finish
    \/ ClientClose
    \/ KeyboardInterrupt

Spec == Init /\ [][Next]_vars

\* The serving thread keeps running: a step it can take is taken.
ServerStep ==
    Accept \/ do_GET \/ do_POST \/ do_POST_body \/ do_POST_result \/ Finish

LiveSpec == Init /\ [][Next]_vars /\ WF_vars(ServerStep)

(***************************************************************************)
(* The client's main().                                                    *)
(***************************************************************************)

\* main(), line 171: the first probe.
FirstProbe ==
    /\ cpc = "start"
    /\ \E i \in ProbeInputs :
         /\ probe' = Probe(i[1], i[2])
         /\ cpc' = IF probe'.result = "True" THEN "discover" ELSE "wait"
         /\ printed' = IF probe'.result = "True" THEN printed
                       ELSE "Server is not running or not accessible."
    /\ UNCHANGED <<waitProbes, slept, disc, exitStatus, debug_mode, lastCall>>
    /\ UNCHANGED serverVars

\* A wait loop that goes on to the end of its range after a good probe.
WaitProbe_no_break ==
    /\ cpc = "wait"
    /\ waitProbes < RetryBudget
    /\ slept' = slept + SleepSeconds
    /\ waitProbes' = waitProbes + 1
    /\ \E i \in ProbeInputs : probe' = Probe(i[1], i[2])
    /\ cpc' = "wait"
    /\ UNCHANGED <<disc, printed, exitStatus, debug_mode, lastCall>>
    /\ UNCHANGED serverVars

\* One iteration of the wait loop: sleep, probe, break when reachable.
WaitProbe ==
    /\ cpc = "wait"
    /\ waitProbes < RetryBudget
    /\ slept' = slept + SleepSeconds
    /\ waitProbes' = waitProbes + 1
    /\ \E i \in ProbeInputs : probe' = Probe(i[1], i[2])
    /\ cpc' = IF probe'.result = "True" THEN "discover" ELSE "wait"
    /\ UNCHANGED <<disc, printed, exitStatus, debug_mode, lastCall>>
    /\ UNCHANGED serverVars

\* The else branch of the loop without its return.
WaitTimeout_no_return ==
    /\ cpc = "wait"
    /\ waitProbes = RetryBudget
    /\ printed' = "Timed out waiting for server. Please start it manually."
    /\ cpc' = "discover"
    /\ UNCHANGED <<waitProbes, slept, probe, disc, exitStatus, debug_mode, lastCall>>
    /\ UNCHANGED serverVars

\* The range is exhausted: main() returns 1.
WaitTimeout ==
    /\ cpc = "wait"
    /\ waitProbes = RetryBudget
    /\ printed' = "Timed out waiting for server. Please start it manually."
    /\ cpc' = "exit"
    /\ exitStatus' = 1
    /\ UNCHANGED <<waitProbes, slept, probe, disc, debug_mode, lastCall>>
    /\ UNCHANGED serverVars

\* main(), lines 189-199: list_tools() and the display of its result.
\* display_tools_table raises on a value that is not a list of descriptors.
Discover ==
    /\ cpc = "discover"
    /\ \E i \in ProbeInputs, x \in RequestOutcomes :
         LET p == Probe(i[1], i[2])
             xx == IF p.result = "True" THEN x ELSE Exchange("none", 0, "none")
             r == list_tools(p, xx)
         IN
         /\ disc' = [probe |-> p.result, http |-> xx.http, status |-> xx.status,
                     body |-> xx.body, value |-> r.value]
         /\ IF r.value = "None"
            THEN cpc' = "exit" /\ exitStatus' = 1 /\ printed' = r.message
            ELSE IF r.value = "raise"
            THEN cpc' = "exit" /\ exitStatus' = 1 /\ printed' = "Traceback"
            ELSE IF r.value = "object"
            THEN /\ cpc' = "exit"
                 /\ exitStatus' = 1
                 /\ printed' = "Error connecting to server"
            ELSE cpc' = "menu" /\ UNCHANGED <<exitStatus, printed>>
    /\ UNCHANGED <<waitProbes, slept, probe, debug_mode, lastCall>>
    /\ UNCHANGED serverVars

\* Choices 1, 2 and 3 of the menu: one call_tool(), then the menu again.
\* Choice 2 prints the search term before the call.  An exception that
\* leaves the call or the print leaves main(): traceback, exit status 1.
MenuCall ==
    /\ cpc = "menu"
    /\ \E choice \in {"1", "2", "3"}, term \in SearchTerms, x \in RequestOutcomes :
         IF choice = "2" /\ PrintRaises(term)
         THEN /\ cpc' = "exit"
              /\ exitStatus' = 1
              /\ printed' = "Traceback"
              /\ UNCHANGED lastCall
         ELSE LET r == call_tool(x) IN
              /\ lastCall' = [tool |-> MenuTool(choice),
                              params |-> MenuParams(choice), value |-> r.value]
              /\ IF r.value = "raise"
                 THEN cpc' = "exit" /\ exitStatus' = 1 /\ printed' = r.message
                 ELSE /\ cpc' = "menu"
                      /\ printed' = IF r.value = "None" THEN r.message ELSE printed
                      /\ UNCHANGED exitStatus
    /\ UNCHANGED <<waitProbes, slept, probe, disc, debug_mode>>
    /\ UNCHANGED serverVars

\* Choice 5, offered in debug mode.
MenuToggleDebug ==
    /\ cpc = "menu"
    /\ debug_mode
    /\ debug_mode' = ~debug_mode
    /\ UNCHANGED <<cpc, waitProbes, slept, probe, disc, printed, exitStatus,
                   lastCall>>
    /\ UNCHANGED serverVars

\* Choice 4: the loop ends and main() returns 0.
MenuExit ==
    /\ cpc = "menu"
    /\ cpc' = "exit"
    /\ exitStatus' = 0
    /\ UNCHANGED <<waitProbes, slept, probe, disc, printed, debug_mode, lastCall>>
    /\ UNCHANGED serverVars

ClientNext ==
    \/ FirstProbe
    \/ WaitProbe
    \/ WaitTimeout
    \/ Discover
    \/ MenuCall
    \/ MenuToggleDebug
    \/ MenuExit

\* The server is up and a client is started, with or without --debug.
ClientInit ==
    /\ \E toolAttr \in BOOLEAN, classAttr \in BOOLEAN :
           globalsTab = ModuleGlobals(toolAttr, classAttr)
    /\ serverUp = TRUE
    /\ pending = 0
    /\ pc = "idle"
    /\ req = NoRequest
    /\ resp = NoResponse
    /\ invoked = FALSE
    /\ hostOutcome = "none"
    /\ clientOpen = FALSE
    /\ discovered = <<>>
    /\ lastOutcome = "none"
    /\ \E debug \in BOOLEAN : ClientStart(debug)

ClientSpec == ClientInit /\ [][ClientNext]_vars

\* The client runs: its probes, sleeps and requests end (each has a timeout).
\* The command loop waits for the user.
ClientStartup == FirstProbe \/ WaitProbe \/ WaitTimeout \/ Discover

ClientLiveSpec == ClientInit /\ [][ClientNext]_vars /\ WF_vars(ClientStartup)

(***************************************************************************)
(* Properties.                                                             *)
(***************************************************************************)

RegisteredNames == SeqToSet(get_registered_tools)

RECURSIVE ListedNames(_)
ListedNames(ts) ==
    IF ts = <<>> THEN {} ELSE {Head(ts).name} \cup ListedNames(Tail(ts))

IsDiscovery == req.method = "GET" /\ req.path = <<"tools">>
IsToolPost(n) == req.method = "POST" /\ req.path = <<"tools", n>>

\* The body do_POST parses binds exactly the parameters the tool declares.
MinimalValid(n) ==
    /\ req.cl \in {"absent", "exact"}
    /\ PostData(req).kind \in {"empty", "object"}
    /\ PostData(req).keys = DeclaredParams(n)

IsFailureEnvelope(v) ==
    /\ v.kind = "envelope"
    /\ v.status = "error"
    /\ {"status", "message", "timestamp"} \subseteq v.fields

\* C1: every function decorated with @mcp.tool() is listed by GET /tools, and
\* POST /tools/<its name> with minimal valid parameters is answered with 200.
C1_DecoratedToolsListedAndInvocable ==
    /\ (pc = "sent" /\ IsDiscovery)
           => DecoratedTools \subseteq ListedNames(resp.body.tools)
    /\ \A n \in DecoratedTools :
           (IsToolPost(n) /\ MinimalValid(n) /\ pc \in {"sent", "crashed"})
               => resp.code = 200

\* C2: a name that GET /tools has listed is never answered with 404 nor with
\* the 500 "not found in globals" when it is invoked, and a name it has not
\* listed is answered with 404: the listed set is the routable set.
C2_DiscoveredIsRoutable ==
    \A n \in PathNames :
        (discovered # <<>> /\ IsToolPost(n) /\ pc \in {"sent", "crashed"})
            => IF n \in ListedNames(discovered[1])
               THEN /\ resp.code # 404
                    /\ resp.body.error # NotInGlobals(n)
               ELSE resp.code = 404

C2_Witness ==
    /\ discovered # <<>>
    /\ pc = "sent"
    /\ \E n \in ListedNames(discovered[1]) : IsToolPost(n) /\ resp.code = 200

\* C3: POST /tools/<name> for a name that is not in the registry is answered
\* with 404 and {"error": "Tool '<name>' not found"} whatever the body and
\* the Content-Length header are; the body is not read and nothing is called.
C3_UnregisteredIs404 ==
    \A n \in PathNames :
        (IsToolPost(n) /\ n \notin RegisteredNames /\ pc # "accepted")
            => /\ pc = "sent"
               /\ resp = _handle_error(404, ToolNotFound(n))
               /\ resp.code = 404
               /\ resp.body.error = <<"Tool '", n, "' not found">>
               /\ ~invoked

C3_Witness ==
    /\ IsToolPost("frobnicate")
    /\ req.body.kind = "invalid"
    /\ req.cl = "exact"
    /\ pc = "sent"
    /\ resp.code = 404

\* C4: POST /tools/<registered name> with a body that is not valid JSON is
\* answered, and the answer carries a Failure envelope.
C4_InvalidJsonAnsweredWithFailure ==
    (/\ req.method = "POST"
     /\ StartsWithTools(req.path)
     /\ LastSegment(req.path) \in RegisteredNames
     /\ req.cl = "exact"
     /\ req.body.kind = "invalid"
     /\ pc \in {"sent", "crashed"})
        => pc = "sent" /\ IsFailureEnvelope(resp.body)

\* C5: when the parsed parameters cannot be bound to the handler's declared
\* parameters the answer is a Failure envelope, not a bare {"error": ...}.
C5_UnbindableParamsAnsweredWithFailure ==
    \A n \in DecoratedTools :
        (/\ IsToolPost(n)
         /\ n \in RegisteredNames
         /\ req.cl = "exact"
         /\ \/ req.body.kind = "nonobject"
            \/ req.body.kind = "object" /\ req.body.keys # DeclaredParams(n)
         /\ pc \in {"sent", "crashed"})
            => pc = "sent" /\ IsFailureEnvelope(resp.body)

\* C6: a handler whose host operation raised is answered with 200 and a
\* Failure envelope; a 500 is never the answer of a handler that ran.
C6_HostFailureIs200 ==
    pc = "sent" =>
        /\ hostOutcome = "raises"
               => resp.code = 200 /\ IsFailureEnvelope(resp.body)
        /\ resp.code = 500 => hostOutcome = "none"

C6_Witness ==
    /\ pc = "sent"
    /\ invoked
    /\ hostOutcome = "raises"
    /\ resp.code = 200
    /\ resp.body.status = "error"

\* C7: every response carries Access-Control-Allow-Origin: *, Connection:
\* close and a Content-Length equal to the number of bytes written.
C7_HeadersOnEveryResponse ==
    pc = "sent" =>
        /\ resp.acao
        /\ resp.connClose
        /\ resp.contentLength = Len(resp.written)

\* C8: every GET /tools answer is the list of {name, description} entries of
\* the first one, in the same order, whatever requests were served between.
C8_DiscoveryIdempotent ==
    /\ \A i \in 1..Len(discovered) : discovered[i] = discovered[1]
    /\ (pc = "sent" /\ IsDiscovery)
           => /\ discovered # <<>>
              /\ resp.body.tools = discovered[1]

C8_Witness ==
    /\ Len(discovered) = 2
    /\ lastOutcome = "crashed"
    /\ pc = "sent"
    /\ IsDiscovery

\* A request that fails: no answer, or an answer that is not a 200.
FailedRequest == pc = "crashed" \/ (pc = "sent" /\ resp.code # 200)

\* A request the server has nothing to object to.
WellFormed ==
    \/ req.method = "GET"
    \/ \E n \in DecoratedTools \cap RegisteredNames :
           IsToolPost(n) /\ MinimalValid(n)

\* C9: no step of the handling of a request stops the server (only Ctrl+C
\* does); after a failed request the thread is back in serve_forever, a
\* waiting connection is accepted unless the server was stopped, and a
\* well-formed request that is accepted is answered with 200.
C9_FailureContained ==
    /\ [][(serverUp /\ ~serverUp') => KeyboardInterrupt]_vars
    /\ [][(FailedRequest /\ pc' # pc) => (pc' = "idle" /\ serverUp' = serverUp)]_vars
    /\ (lastOutcome = "crashed" /\ pc = "idle" /\ pending > 0)
           ~> (pc = "accepted" \/ ~serverUp)
    /\ (pc = "accepted" /\ WellFormed) ~> (pc = "sent" /\ resp.code = 200)

C9_Witness ==
    /\ lastOutcome = "crashed"
    /\ serverUp
    /\ pc = "sent"
    /\ WellFormed
    /\ resp.code = 200

\* C10: a connection that waits is accepted without waiting for the
\* invocation in progress on another connection.
C10_ConnectionsServedConcurrently ==
    (serverUp /\ pending > 0) => ENABLED Accept

\* C15: GET /tools is answered 200 with the tool array, GET on any other
\* path 200 with the liveness object; a GET never reads a body nor calls a
\* tool.
C15_GetRouting ==
    (req.method = "GET" /\ pc # "accepted")
        => /\ pc = "sent"
           /\ resp.code = 200
           /\ ~invoked
           /\ IF req.path = <<"tools">>
              THEN /\ resp.body.kind = "tools"
                   /\ ListedNames(resp.body.tools) = RegisteredNames
              ELSE /\ resp.body.kind = "info"
                   /\ resp.body.status = "online"
                   /\ resp.body.fields = {"name", "version", "status"}

C15_Witness ==
    /\ req.method = "GET"
    /\ req.path = <<"tools", "check_server_status">>
    /\ pc = "sent"
    /\ resp.body.kind = "info"

\* The path is /tools/{name}: one segment directly under /tools/.
IsToolPath(path) == Len(path) = 2 /\ path[1] = "tools"

\* C16: a POST whose path is not /tools/{name} is answered 404 with
\* {"error": "Invalid endpoint"} and calls no tool.
C16_OtherPostPathsAreInvalidEndpoint ==
    (req.method = "POST" /\ ~IsToolPath(req.path) /\ pc # "accepted")
        => /\ pc = "sent"
           /\ resp.code = 404
           /\ resp.body.error = InvalidEndpoint
           /\ ~invoked

\* C17: search_crontab_entries whose host command finds nothing is answered
\* 200 with status "warning" and count 0.
C17_EmptySearchIsWarning ==
    (/\ req.method = "POST"
     /\ req.path = <<"tools", "search_crontab_entries">>
     /\ hostOutcome = "empty"
     /\ pc = "sent")
        => /\ resp.code = 200
           /\ resp.body.kind = "envelope"
           /\ resp.body.status = "warning"
           /\ resp.body.count = 0

C17_Witness ==
    /\ req.method = "POST"
    /\ req.path = <<"tools", "search_crontab_entries">>
    /\ req.body = Body("object", {"search_term"})
    /\ invoked
    /\ hostOutcome = "empty"
    /\ pc = "sent"
    /\ resp.code = 200

\* C18: when the body of a POST to a registered tool is not JSON, no tool is
\* called.
C18_NoCallAfterParseFailure ==
    (/\ req.method = "POST"
     /\ StartsWithTools(req.path)
     /\ LastSegment(req.path) \in RegisteredNames
     /\ req.cl \in {"exact", "larger"}
     /\ req.body.kind = "invalid")
        => ~invoked /\ pc # "tool"

C18_Witness ==
    /\ IsToolPost("check_server_status")
    /\ req.cl = "exact"
    /\ req.body.kind = "invalid"
    /\ pc = "crashed"
    /\ ~invoked

\* C19: every accepted connection is closed in the end, after exactly one
\* response.
C19_EveryConnectionCloses ==
    (pc = "accepted") ~> (pc = "idle")

\* C20: every 200 answer to a POST is an envelope with a status among
\* success, warning, online, error and a timestamp.
C20_EnvelopeHasStatusAndTimestamp ==
    (req.method = "POST" /\ pc = "sent" /\ resp.code = 200)
        => /\ resp.body.kind = "envelope"
           /\ resp.body.status \in {"success", "warning", "online", "error"}
           /\ {"status", "timestamp"} \subseteq resp.body.fields

C20_Witness ==
    /\ IsToolPost("show_scheduled_task_summary")
    /\ hostOutcome = "empty"
    /\ pc = "sent"
    /\ resp.code = 200
    /\ resp.body.status = "warning"

\* C11: the startup wait makes at most 15 probes, 2 seconds apart; a client
\* that found the server unreachable on every probe has exited with a
\* non-zero status after 15 of them without calling list_tools(); and the
\* startup wait always ends.
C11_StartupTerminates ==
    /\ [](waitProbes <= 15 /\ slept = 2 * waitProbes)
    /\ []((cpc = "exit" /\ probe.result # "True")
             => /\ exitStatus = 1
                /\ waitProbes = 15
                /\ disc = NoDisc
                /\ lastCall = NoCall)
    /\ [](probe.result = "False" => cpc \in {"wait", "exit"})
    /\ (cpc \in {"start", "wait"}) ~> (cpc \notin {"start", "wait"})

C11_Witness ==
    /\ cpc = "exit"
    /\ probe.result = "False"
    /\ waitProbes = 15
    /\ slept = 30
    /\ exitStatus = 1

\* C12: a probe of the wait loop that finds the server reachable ends the
\* wait, at most 15 probes into it; a discovery that is answered with a
\* catalog then takes the client to the command loop.
C12_ReachableWithinBudget ==
    /\ [][(cpc = "wait" /\ probe'.result = "True")
             => (cpc' = "discover" /\ waitProbes' <= 15)]_vars
    /\ [][(cpc = "discover" /\ disc'.status = 200 /\ disc'.body \in {"array0", "tools"})
             => cpc' = "menu"]_vars
    /\ [](cpc \in {"discover", "menu"} => (probe.result = "True" /\ waitProbes <= 15))

C12_Witness ==
    /\ cpc = "menu"
    /\ waitProbes = 14
    /\ probe.result = "True"
    /\ disc.body = "tools"

\* C13: a probe reports reachable exactly when the socket connected and the
\* HTTP GET was answered; every failure is reported as unreachable, by a
\* return value.
C13_ProbeReachableIffBothSucceed ==
    probe # NoProbe
        => /\ probe.result \in {"True", "False"}
           /\ probe.result = "True" <=> (probe.sock = "ok" /\ probe.http = "response")

C13_Witness ==
    /\ probe.sock = "ok"
    /\ probe.http = "timeout"
    /\ probe.result = "False"

AbsentLengthPost ==
    /\ req.method = "POST"
    /\ StartsWithTools(req.path)
    /\ LastSegment(req.path) \in RegisteredNames
    /\ req.cl = "absent"

C21_AbsentLengthMeansNoParams ==
    AbsentLengthPost =>
        /\ PostData(req) = EmptyBody
        /\ pc # "crashed"
        /\ pc = "body" => ENABLED do_POST_body
        /\ pc = "tool" => invoked /\ DeclaredParams(LastSegment(req.path)) = {}
        /\ pc = "sent" =>
              IF DeclaredParams(LastSegment(req.path)) = {}
              THEN invoked /\ resp.code \in {200, 500}
              ELSE ~invoked /\ resp = _handle_error(500, ErrorCallingTool("TypeError"))

C21_Witness ==
    /\ IsToolPost("check_server_status")
    /\ req.cl = "absent"
    /\ req.body.kind = "invalid"
    /\ clientOpen
    /\ invoked
    /\ pc = "sent"
    /\ resp.code = 200

\* C22: in the command loop a call that fails returns None and never raises,
\* and a client that has entered the command loop ends only by Exit, with
\* exit status 0.
C22_FailedCallIsNotFatal ==
    /\ lastCall.value # "raise"
    /\ (cpc = "exit" /\ disc.value \in {"array0", "tools"}) => exitStatus = 0

\* C23: each tool the menu of the client can call is in the registry of the
\* server, is listed by GET /tools, and POST /tools/<its name> is never
\* answered with 404.
MenuChoices == {"1", "2", "3"}

C23_MenuToolsAreRegistered ==
    \A choice \in MenuChoices :
        /\ MenuTool(choice) \in RegisteredNames
        /\ (pc = "sent" /\ IsDiscovery)
               => MenuTool(choice) \in ListedNames(resp.body.tools)
        /\ (IsToolPost(MenuTool(choice)) /\ pc \in {"sent", "crashed"})
               => resp.code # 404

C23_Witness ==
    /\ discovered # <<>>
    /\ MenuTool("1") \in ListedNames(discovered[1])
    /\ IsToolPost(MenuTool("1"))
    /\ PostData(req) = Body("object", MenuParams("1"))
    /\ pc = "sent"
    /\ resp.code = 200
====
